---- MODULE Spec2Model ----
(***************************************************************************)
(* The NVMe-oF gateway monitor client of src/nvmeof/NVMeofGw.cc: the map   *)
(* reconciliation of handle_nvmeof_gw_map, the beacon of send_beacon/tick, *)
(* and the lock that ms_dispatch2, init, the timer and the shutdown task   *)
(* share.                                                                  *)
(***************************************************************************)
EXTENDS Integers, Sequences, FiniteSets, TLC

\* ------------------------------------------------------------------------
\* Bounds of the model.
\* ------------------------------------------------------------------------

\* The total number of ana_state elements in one gateway state.
MaxAna == 2
\* The number of failed attempts a retry loop is followed through.
MaxFail == 1

\* ------------------------------------------------------------------------
\* The data of a map.
\* ------------------------------------------------------------------------

\* GW_EXPORTED_STATES_PER_AGROUP_E: the raw per-group states. One of them is
\* GW_EXPORTED_OPTIMIZED_STATE; the model carries two other values.
GW_EXPORTED_OPTIMIZED_STATE == 0
RawStates == {GW_EXPORTED_OPTIMIZED_STATE, 1, 2}

\* The subsystems, in the order std::map<nqn, ...> iterates them.
NqnOrder == <<"nqn1", "nqn2">>
Nqns == {NqnOrder[k] : k \in 1..Len(NqnOrder)}

\* The identity of this gateway (name, pool, group) and the others a map holds.
name == "gw1"
peer == "gw2"
group_key == <<"pool1", "grp1">>
foreign_key == <<"pool1", "grp2">>

EmptyFn == [x \in {} |-> 0]

\* SubsystemState.ana_state: a sequence of raw states.
AnaSeqs(n) == UNION {[1..k -> RawStates] : k \in 0..n}

RECURSIVE SumLen(_, _)
SumLen(ss, D) ==
  IF D = {} THEN 0
  ELSE LET n == CHOOSE x \in D : TRUE
       IN  Len(ss[n]) + SumLen(ss, D \ {n})

\* GW_STATE_T.subsystems: nqn -> ana_state, at most MaxAna elements in all.
SubsystemMaps ==
  {s \in UNION {[D -> AnaSeqs(MaxAna)] : D \in SUBSET Nqns} :
     SumLen(s, DOMAIN s) <= MaxAna}

GroupIds == {1, 2}

GwState(gid, ss) == [group_id |-> gid, subsystems |-> ss]

\* A default-constructed GW_STATE_T, as declared at lines 291 and 293.
DefaultGwState == GwState(0, EmptyFn)

\* The states the entry of this gateway takes when the map holds other
\* entries as well.
PlainStates ==
  {GwState(1, "nqn1" :> <<GW_EXPORTED_OPTIMIZED_STATE>>),
   GwState(2, "nqn1" :> <<1>>)}

\* The entries of the other gateways: a peer of the same group, and a gateway
\* of the same name in another group.
PeerState == GwState(2, "nqn2" :> <<GW_EXPORTED_OPTIMIZED_STATE>>)
ForeignState == GwState(1, "nqn1" :> <<1, GW_EXPORTED_OPTIMIZED_STATE>>)

\* std::map<GROUP_KEY, GWMAP>: group key -> gateway id -> GW_STATE_T.
\* owns holds the state of this gateway's entry, or nothing.
MkMap(owns, withPeer, withForeign) ==
  LET gws == [g \in {name : o \in owns} |-> CHOOSE o \in owns : TRUE] @@
             (IF withPeer THEN peer :> PeerState ELSE EmptyFn)
  IN  (IF DOMAIN gws = {} THEN EmptyFn ELSE group_key :> gws) @@
      (IF withForeign THEN foreign_key :> (name :> ForeignState) ELSE EmptyFn)

EmptyMap == MkMap({}, FALSE, FALSE)

\* The maps the monitor sends: every state of this gateway's entry alone in
\* the map, and the plain states together with the other entries.
Maps ==
  {MkMap({GwState(1, s)}, FALSE, FALSE) : s \in SubsystemMaps} \cup
  {MkMap(owns, p, f) : owns \in {{}} \cup {{o} : o \in PlainStates},
                       p \in BOOLEAN, f \in BOOLEAN}

\* ------------------------------------------------------------------------
\* The state of the program.
\* ------------------------------------------------------------------------

VARIABLES
  map,        \* NVMeofGw::map, the last map applied
  lock,       \* NVMeofGw::lock: the thread that holds it, or "none"
  pc,         \* the position of each thread
  new_map,    \* the map of the message ms_dispatch2 is handling
  ai,         \* ana_info ai of handle_nvmeof_gw_map
  calls,      \* the remote calls of the current handle_nvmeof_gw_map, in order
  ok,         \* bool ok of send_beacon, per thread running tick
  subs,       \* BeaconSubsystems subs of send_beacon, per thread running tick
  sent,       \* the beacons the tick in progress handed to monc, per thread
  queries,    \* the get_subsystems calls of the tick in progress, per thread
  joined,     \* history: a map with this gateway's entry has been committed
  events,     \* the tick callbacks scheduled in the timer
  stopped     \* timer.shutdown() has run

vars == <<map, lock, pc, new_map, ai, calls, ok, subs, sent, queries, joined,
          events, stopped>>

Threads == {"init", "dispatch", "timer", "finisher"}
TickThreads == {"init", "timer"}

\* ------------------------------------------------------------------------
\* get_gw_state (lines 180-194).
\* ------------------------------------------------------------------------

get_gw_state(m, gk, gw_id) ==
  IF gk \notin DOMAIN m THEN [found |-> FALSE, state |-> DefaultGwState]
  ELSE IF gw_id \notin DOMAIN m[gk] THEN [found |-> FALSE, state |-> DefaultGwState]
  ELSE [found |-> TRUE, state |-> m[gk][gw_id]]

\* ------------------------------------------------------------------------
\* handle_nvmeof_gw_map: gathering the state changes (lines 314-338).
\* ------------------------------------------------------------------------

OPTIMIZED == "OPTIMIZED"
INACCESSIBLE == "INACCESSIBLE"

\* A variant of ExportedState that tests for one inaccessible raw state.
ExportedStateByInaccessible(new_group_state) ==
  IF new_group_state = 1 THEN INACCESSIBLE ELSE OPTIMIZED

\* Line 333: the exported state of a raw state.
ExportedState(new_group_state) ==
  IF new_group_state = GW_EXPORTED_OPTIMIZED_STATE THEN OPTIMIZED ELSE INACCESSIBLE

\* A variant of GrpId without the offset.
GrpIdNoOffset(ana_grp_index) == ana_grp_index

\* Line 332: index 0 is ANAGRP1.
GrpId(ana_grp_index) == ana_grp_index + 1

\* The reads of old_nqn_state_pair->second.ana_state[ana_grp_index] at line 328
\* that fall outside the old sequence: operator[] does not check the index, so
\* what such a read compares equal to is not defined.
UncheckedReads(got_old, old_gw_state, new_gw_state) ==
  {p \in Nqns \X (0..MaxAna) :
     /\ got_old
     /\ p[1] \in DOMAIN new_gw_state.subsystems
     /\ p[1] \in DOMAIN old_gw_state.subsystems
     /\ p[2] < Len(new_gw_state.subsystems[p[1]])
     /\ p[2] >= Len(old_gw_state.subsystems[p[1]])}

\* A variant of NoChange that compares with the first element of the old
\* sequence whatever the index.
NoChangeFirstElement(got_old, old_gw_state, nqn, ana_grp_index, new_group_state, equal_reads) ==
  /\ got_old
  /\ nqn \in DOMAIN old_gw_state.subsystems
  /\ Len(old_gw_state.subsystems[nqn]) > 0
  /\ new_group_state = old_gw_state.subsystems[nqn][1]

\* Lines 322-330: no state change detected for this nqn and group index.
\* equal_reads: the unchecked reads that happen to compare equal.
NoChange(got_old, old_gw_state, nqn, ana_grp_index, new_group_state, equal_reads) ==
  /\ got_old
  /\ nqn \in DOMAIN old_gw_state.subsystems
  /\ IF ana_grp_index < Len(old_gw_state.subsystems[nqn])
     THEN new_group_state = old_gw_state.subsystems[nqn][ana_grp_index + 1]
     ELSE <<nqn, ana_grp_index>> \in equal_reads

\* Lines 321-336: the ana_group_state records of one subsystem, from
\* ana_grp_index on.
RECURSIVE GroupStates(_, _, _, _, _, _)
GroupStates(got_old, old_gw_state, nqn, sub, ana_grp_index, equal_reads) ==
  IF ana_grp_index >= Len(sub) THEN << >>
  ELSE LET new_group_state == sub[ana_grp_index + 1]
           rest == GroupStates(got_old, old_gw_state, nqn, sub,
                               ana_grp_index + 1, equal_reads)
       IN  IF NoChange(got_old, old_gw_state, nqn, ana_grp_index,
                       new_group_state, equal_reads)
           THEN rest
           ELSE <<[grp_id |-> GrpId(ana_grp_index),
                   state |-> ExportedState(new_group_state)]>> \o rest

\* A variant of AddStates that adds every subsystem.
AddStatesAlways(nqn, states) == <<[nqn |-> nqn, states |-> states]>>

\* Line 337: a subsystem is added to ai only when it has records.
AddStates(nqn, states) ==
  IF Len(states) > 0 THEN <<[nqn |-> nqn, states |-> states]>> ELSE << >>

\* Lines 315-338: ana_info ai, over the subsystems of new_gw_state from the
\* k-th of NqnOrder on.
RECURSIVE GatherFrom(_, _, _, _, _)
GatherFrom(got_old, old_gw_state, new_gw_state, k, equal_reads) ==
  IF k > Len(NqnOrder) THEN << >>
  ELSE LET nqn == NqnOrder[k]
           rest == GatherFrom(got_old, old_gw_state, new_gw_state, k + 1, equal_reads)
       IN  IF nqn \in DOMAIN new_gw_state.subsystems
           THEN AddStates(nqn, GroupStates(got_old, old_gw_state, nqn,
                                           new_gw_state.subsystems[nqn], 0,
                                           equal_reads)) \o rest
           ELSE rest

GatherStateChanges(got_old, old_gw_state, new_gw_state, equal_reads) ==
  GatherFrom(got_old, old_gw_state, new_gw_state, 1, equal_reads)

\* ------------------------------------------------------------------------
\* handle_nvmeof_gw_map under ms_dispatch2 (lines 285-366).
\* ------------------------------------------------------------------------

Call(op, gid, changes, result) ==
  [op |-> op, group_id |-> gid, ai |-> changes, ok |-> result]

\* The failed attempts of a remote call so far in this handle_nvmeof_gw_map.
Failed(op) == Cardinality({k \in 1..Len(calls) : calls[k].op = op /\ ~calls[k].ok})

\* The messenger delivers messages from client_messenger->start() (line 111)
\* until client_messenger->shutdown().
MessengerUp == pc["init"] \notin {"start", "failed"} /\ pc["finisher"] # "done"

\* A variant of CanLock that does not wait for the lock.
CanLockAlways == TRUE

\* Line 358, 102, 257 and the timer's callbacks: std::lock_guard l(lock).
CanLock == lock = "none"

\* A variant of ReturnsEarly that looks at the new map alone.
ReturnsEarlyNoNew(got_old, got_new) == ~got_new

\* Lines 296-300: neither the old nor the new map has this gateway.
ReturnsEarly(got_old, got_new) == ~got_old /\ ~got_new

\* A variant of FirstJoin that looks at the new map alone.
FirstJoinAlways(got_old, got_new) == got_new

\* Lines 296-312: the first map with this gateway in it.
FirstJoin(got_old, got_new) == ~got_old /\ got_new

\* A variant of LoopDone that leaves the loop after one attempt.
LoopDoneAtOnce(result) == TRUE

\* Lines 302 and 343: a retry loop runs until its call succeeds.
LoopDone(result) == result

\* Line 341: there is a state change to notify the gateway of.
HasChanges(changes) == Len(changes) > 0

\* A variant of Commit that merges the new map into the old one.
CommitMerged(m) == m @@ map

\* Line 353: map = new_map.
Commit(m) == m

\* Lines 314-353 up to the first set_ana_state: gather the changes; with none,
\* commit and return.
GatherAndNotify(old, new, m, equal_reads) ==
  LET changes == GatherStateChanges(old.found, old.state, new.state, equal_reads)
  IN  /\ ai' = changes
      /\ IF HasChanges(changes)
         THEN /\ pc' = [pc EXCEPT !["dispatch"] = "set_ana_state"]
              /\ map' = map
         ELSE /\ pc' = [pc EXCEPT !["dispatch"] = "handled"]
              /\ map' = Commit(m)
      /\ joined' = (joined \/ get_gw_state(map', group_key, name).found)

\* ms_dispatch2 with an MNVMeofGwMap: takes the lock and runs
\* handle_nvmeof_gw_map up to its first remote call or its return.
ms_dispatch2(m) ==
  /\ pc["dispatch"] = "idle"
  /\ MessengerUp
  /\ CanLock
  /\ lock' = "dispatch"
  /\ new_map' = m
  /\ calls' = << >>
  /\ LET old == get_gw_state(map, group_key, name)
         new == get_gw_state(m, group_key, name)
     IN  IF ReturnsEarly(old.found, new.found)
         THEN /\ pc' = [pc EXCEPT !["dispatch"] = "handled"]
              /\ UNCHANGED <<map, joined, ai>>
         ELSE IF FirstJoin(old.found, new.found)
         THEN /\ pc' = [pc EXCEPT !["dispatch"] = "set_group_id"]
              /\ UNCHANGED <<map, joined, ai>>
         ELSE \E equal_reads \in SUBSET UncheckedReads(old.found, old.state, new.state) :
                GatherAndNotify(old, new, m, equal_reads)
  /\ UNCHANGED <<ok, subs, sent, queries, events, stopped>>

\* ms_dispatch2 with a message of another type (lines 358-365).
ms_dispatch2_other ==
  /\ pc["dispatch"] = "idle"
  /\ MessengerUp
  /\ CanLock
  /\ lock' = "dispatch"
  /\ pc' = [pc EXCEPT !["dispatch"] = "other"]
  /\ UNCHANGED <<map, joined, new_map, ai, calls, ok, subs, sent, queries, events, stopped>>

\* Lines 302-311: one attempt of set_group_id.
set_group_id(result) ==
  /\ pc["dispatch"] = "set_group_id"
  /\ result \/ Failed("set_group_id") < MaxFail
  /\ LET old == get_gw_state(map, group_key, name)
         new == get_gw_state(new_map, group_key, name)
     IN  /\ calls' = Append(calls, Call("set_group_id", new.state.group_id, << >>, result))
         /\ IF LoopDone(result)
            THEN \E equal_reads \in SUBSET UncheckedReads(old.found, old.state, new.state) :
                   GatherAndNotify(old, new, new_map, equal_reads)
            ELSE UNCHANGED <<map, joined, pc, ai>>
  /\ UNCHANGED <<lock, new_map, ok, subs, sent, queries, events, stopped>>

\* Lines 343-351: one attempt of set_ana_state; line 353 after the loop.
set_ana_state(result) ==
  /\ pc["dispatch"] = "set_ana_state"
  /\ result \/ Failed("set_ana_state") < MaxFail
  /\ calls' = Append(calls, Call("set_ana_state", 0, ai, result))
  /\ IF LoopDone(result)
     THEN /\ map' = Commit(new_map)
          /\ joined' = (joined \/ get_gw_state(map', group_key, name).found)
          /\ pc' = [pc EXCEPT !["dispatch"] = "handled"]
     ELSE UNCHANGED <<map, joined, pc>>
  /\ UNCHANGED <<lock, new_map, ai, ok, subs, sent, queries, events, stopped>>

\* Lines 364-366: ms_dispatch2 returns and the lock_guard releases the lock;
\* the locals of handle_nvmeof_gw_map are gone.
ms_dispatch2_return ==
  /\ pc["dispatch"] \in {"handled", "other"}
  /\ pc' = [pc EXCEPT !["dispatch"] = "idle"]
  /\ lock' = "none"
  /\ new_map' = EmptyMap
  /\ ai' = << >>
  /\ calls' = << >>
  /\ UNCHANGED <<map, joined, ok, subs, sent, queries, events, stopped>>

\* ------------------------------------------------------------------------
\* send_beacon and tick (lines 196-252), run by init and by the timer.
\* ------------------------------------------------------------------------

GW_CREATED == "CREATED"
GW_AVAILABLE == "AVAILABLE"
GW_UNAVAILABLE == "UNAVAILABLE"

\* What the gateway answers to get_subsystems when it answers.
SubsystemLists == {<< >>, <<"nqn1">>}

\* A variant of Availability that looks at the query alone.
AvailabilityOfQuery(got_old, query_ok) ==
  IF query_ok THEN GW_AVAILABLE ELSE GW_UNAVAILABLE

\* A variant of Availability that keeps the initial value when the query
\* failed.
AvailabilityCreatedOnFailure(got_old, query_ok) ==
  IF got_old /\ query_ok THEN GW_AVAILABLE ELSE GW_CREATED

\* Lines 200 and 226-230: the availability the beacon carries.
Availability(got_old, query_ok) ==
  IF got_old
  THEN (IF query_ok THEN GW_AVAILABLE ELSE GW_UNAVAILABLE)
  ELSE GW_CREATED

\* A variant of BeaconSubsystems that copies the answer whatever the call
\* returned.
BeaconSubsystemsOfAnswer(query_ok, gw_subsystems) == gw_subsystems

\* Lines 201 and 206-224: BeaconSubsystems subs starts empty and is filled from
\* the answer only if (ok).
BeaconSubsystems(query_ok, gw_subsystems) ==
  IF query_ok THEN gw_subsystems ELSE << >>

\* Lines 201-224: gw_client.get_subsystems, called once, and the translation
\* of its answer.
get_subsystems(t, result, answer) ==
  /\ pc[t] = "send_beacon"
  /\ ok' = [ok EXCEPT ![t] = result]
  /\ subs' = [subs EXCEPT ![t] = BeaconSubsystems(result, answer)]
  /\ queries' = [queries EXCEPT ![t] = @ + 1]
  /\ pc' = [pc EXCEPT ![t] = "got_subsystems"]
  /\ UNCHANGED <<map, joined, lock, new_map, ai, calls, sent, events, stopped>>

\* Lines 226-238: the beacon is built and handed to monc.send_mon_message.
send_mon_message(t) ==
  /\ pc[t] = "got_subsystems"
  /\ LET old == get_gw_state(map, group_key, name)
     IN  sent' = [sent EXCEPT ![t] =
                    Append(@, [name |-> name, group_key |-> group_key,
                               subs |-> subs[t],
                               availability |-> Availability(old.found, ok[t])])]
  /\ pc' = [pc EXCEPT ![t] = "beacon_sent"]
  /\ UNCHANGED <<map, joined, lock, new_map, ai, calls, ok, subs, queries, events, stopped>>

\* A variant of add_event_after that schedules nothing.
add_no_event(t) ==
  /\ pc[t] = "beacon_sent"
  /\ pc' = [pc EXCEPT ![t] = "scheduled"]
  /\ UNCHANGED <<map, joined, lock, new_map, ai, calls, ok, subs, sent, queries, events, stopped>>

\* Lines 246-251: tick schedules the next tick.
add_event_after(t) ==
  /\ pc[t] = "beacon_sent"
  /\ events' = events + 1
  /\ pc' = [pc EXCEPT ![t] = "scheduled"]
  /\ UNCHANGED <<map, joined, lock, new_map, ai, calls, ok, subs, sent, queries, stopped>>

\* tick returns: the locals of send_beacon are gone.
TickReturn(t, to) ==
  /\ pc[t] = "scheduled"
  /\ pc' = [pc EXCEPT ![t] = to]
  /\ lock' = "none"
  /\ ok' = [ok EXCEPT ![t] = FALSE]
  /\ subs' = [subs EXCEPT ![t] = << >>]
  /\ sent' = [sent EXCEPT ![t] = << >>]
  /\ queries' = [queries EXCEPT ![t] = 0]
  /\ UNCHANGED <<map, joined, new_map, ai, calls, events, stopped>>

\* ------------------------------------------------------------------------
\* init (lines 60-178).
\* ------------------------------------------------------------------------

\* Line 102: std::lock_guard l(lock), held until init returns.
init_lock ==
  /\ pc["init"] = "start"
  /\ CanLock
  /\ lock' = "init"
  /\ pc' = [pc EXCEPT !["init"] = "locked"]
  /\ UNCHANGED <<map, joined, new_map, ai, calls, ok, subs, sent, queries, events, stopped>>

\* Lines 116-120, 143-148, 152-158: the monitor client fails; init returns.
init_fail ==
  /\ pc["init"] = "locked"
  /\ pc' = [pc EXCEPT !["init"] = "failed"]
  /\ lock' = "none"
  /\ UNCHANGED <<map, joined, new_map, ai, calls, ok, subs, sent, queries, events, stopped>>

\* Lines 159-174: timer.init() and the first tick().
init_tick ==
  /\ pc["init"] = "locked"
  /\ pc' = [pc EXCEPT !["init"] = "send_beacon"]
  /\ UNCHANGED <<map, joined, lock, new_map, ai, calls, ok, subs, sent, queries, events, stopped>>

\* Lines 176-177.
init_return == TickReturn("init", "done")

\* ------------------------------------------------------------------------
\* The timer thread: SafeTimer timer(g_ceph_context, lock) (line 44) runs a
\* scheduled callback with the lock held.
\* ------------------------------------------------------------------------

timer_fire ==
  /\ pc["timer"] = "idle"
  /\ events > 0
  /\ ~stopped
  /\ CanLock
  /\ lock' = "timer"
  /\ events' = events - 1
  /\ pc' = [pc EXCEPT !["timer"] = "send_beacon"]
  /\ UNCHANGED <<map, joined, new_map, ai, calls, ok, subs, sent, queries, stopped>>

timer_return == TickReturn("timer", "idle")

\* ------------------------------------------------------------------------
\* shutdown (lines 254-283): the teardown runs on the finisher thread.
\* ------------------------------------------------------------------------

\* Line 256: finisher.queue.
shutdown ==
  /\ pc["finisher"] = "idle"
  /\ pc["init"] = "done"
  /\ pc' = [pc EXCEPT !["finisher"] = "queued"]
  /\ UNCHANGED <<map, joined, lock, new_map, ai, calls, ok, subs, sent, queries, events, stopped>>

\* Line 257: std::lock_guard l(lock).
teardown_lock ==
  /\ pc["finisher"] = "queued"
  /\ CanLock
  /\ lock' = "finisher"
  /\ pc' = [pc EXCEPT !["finisher"] = "teardown"]
  /\ UNCHANGED <<map, joined, new_map, ai, calls, ok, subs, sent, queries, events, stopped>>

\* Lines 263-277: timer.shutdown() cancels the scheduled events; the clients
\* and the messenger are shut down; the lock is released.
teardown ==
  /\ pc["finisher"] = "teardown"
  /\ stopped' = TRUE
  /\ events' = 0
  /\ lock' = "none"
  /\ pc' = [pc EXCEPT !["finisher"] = "done"]
  /\ UNCHANGED <<map, joined, new_map, ai, calls, ok, subs, sent, queries>>

\* ------------------------------------------------------------------------
\* The specifications.
\* ------------------------------------------------------------------------

\* The state after the constructor (lines 37-48).
Init ==
  /\ map = EmptyMap
  /\ lock = "none"
  /\ pc = [t \in Threads |-> IF t = "init" THEN "start" ELSE "idle"]
  /\ new_map = EmptyMap
  /\ ai = << >>
  /\ calls = << >>
  /\ ok = [t \in TickThreads |-> FALSE]
  /\ subs = [t \in TickThreads |-> << >>]
  /\ sent = [t \in TickThreads |-> << >>]
  /\ queries = [t \in TickThreads |-> 0]
  /\ joined = FALSE
  /\ events = 0
  /\ stopped = FALSE

\* The maps the whole program is run on.
FewMaps ==
  {MkMap(owns, p, FALSE) : owns \in {{}} \cup {{o} : o \in PlainStates}, p \in BOOLEAN}

Startup ==
  \/ init_lock
  \/ init_fail
  \/ init_tick
  \/ init_return

Tick ==
  \E t \in TickThreads :
    \/ \E result \in BOOLEAN, answer \in SubsystemLists : get_subsystems(t, result, answer)
    \/ send_mon_message(t)
    \/ add_event_after(t)

Reconcile(ms) ==
  \/ \E m \in ms : ms_dispatch2(m)
  \/ ms_dispatch2_other
  \/ \E result \in BOOLEAN : set_group_id(result)
  \/ \E result \in BOOLEAN : set_ana_state(result)
  \/ ms_dispatch2_return

\* The whole program: init, the messenger's dispatch thread, the timer thread
\* and the shutdown task.
Next ==
  \/ Startup
  \/ Tick
  \/ Reconcile(FewMaps)
  \/ timer_fire
  \/ timer_return
  \/ shutdown
  \/ teardown_lock
  \/ teardown

Spec == Init /\ [][Next]_vars

\* The dispatch thread after init, over every map of Maps; the timer does not
\* fire and shutdown is not called.
NextReconcile ==
  \/ Startup
  \/ Tick
  \/ Reconcile(Maps)

SpecReconcile == Init /\ [][NextReconcile]_vars

\* ------------------------------------------------------------------------
\* The properties.
\* ------------------------------------------------------------------------

\* The map has an entry for this gateway's (pool, group, name).
HasEntry(m) == get_gw_state(m, group_key, name).found
OwnState(m) == get_gw_state(m, group_key, name).state

\* A step in which ms_dispatch2 calls handle_nvmeof_gw_map.
Entering == pc["dispatch"] = "idle" /\ pc'["dispatch"] \notin {"idle", "other"}
\* A step in which handle_nvmeof_gw_map returns.
Returning == pc["dispatch"] # "handled" /\ pc'["dispatch"] = "handled"
\* A step in which one attempt of a remote call is made.
Attempt(op) == Len(calls') = Len(calls) + 1 /\ calls'[Len(calls')].op = op

\* C1, as claimed: whenever handle_nvmeof_gw_map has returned, the last-applied
\* map equals the incoming map.
C1_MapEqualsInput == pc["dispatch"] = "handled" => map = new_map

\* C1, amended: when handle_nvmeof_gw_map returns, the last-applied map equals
\* the incoming map, nothing of the old map kept, unless neither map has an
\* entry for this gateway, and then the last-applied map is the old one; and
\* the map does not change while the handler is in a retry loop.
C1_CommitUnlessBothAbsent ==
  [][/\ Returning =>
          IF ~HasEntry(map) /\ ~HasEntry(new_map')
          THEN map' = map
          ELSE map' = new_map'
     /\ pc'["dispatch"] \in {"set_group_id", "set_ana_state"} => map' = map]_vars

\* C1, reached: a map with a peer in it was committed after remote calls.
C1_Committed ==
  /\ pc["dispatch"] = "handled"
  /\ HasEntry(new_map)
  /\ map = new_map
  /\ peer \in DOMAIN map[group_key]
  /\ Len(calls) > 0

\* C2, as claimed: a call of handle_nvmeof_gw_map with a map that has no entry
\* for this gateway leaves the last-applied map unchanged.
C2_MissingEntryNoOp ==
  [][(Entering /\ ~HasEntry(new_map')) => map' = map]_vars

\* C2, amended: a call of handle_nvmeof_gw_map with a map that has no entry for
\* this gateway makes no remote call and returns; the last-applied map is
\* unchanged when it has no entry for this gateway either, and is replaced by
\* the incoming map when it has one.
C2_MissingEntry ==
  [][(Entering /\ ~HasEntry(new_map')) =>
       /\ pc'["dispatch"] = "handled"
       /\ calls' = << >>
       /\ map' = IF HasEntry(map) THEN new_map' ELSE map]_vars

\* C2, reached: the handler returned on a map without the entry and the
\* last-applied map is not that map.
C2_ReturnedEarly ==
  /\ pc["dispatch"] = "handled"
  /\ ~HasEntry(new_map)
  /\ ~HasEntry(map)
  /\ map # new_map

\* C3: in a cycle where the last-applied map has no entry for this gateway and
\* the new map has one, every attempt of set_ana_state comes after an attempt
\* of set_group_id that returned success.
C3_FirstJoinGating ==
  [][(~HasEntry(map) /\ HasEntry(new_map) /\ Attempt("set_ana_state")) =>
       \E k \in 1..Len(calls) : calls[k].op = "set_group_id" /\ calls[k].ok]_vars

\* C3, reached: a first join where set_group_id failed, then succeeded, and
\* set_ana_state was attempted.
C3_JoinedAfterFailure ==
  /\ pc["dispatch"] = "set_ana_state"
  /\ ~HasEntry(map)
  /\ Len(calls) = 3
  /\ calls[1].op = "set_group_id" /\ ~calls[1].ok
  /\ calls[2].op = "set_group_id" /\ calls[2].ok
  /\ calls[3].op = "set_ana_state" /\ ~calls[3].ok

\* The records of a change-set, as (nqn, group id, exported state).
Records(changes) ==
  UNION {{<<changes[k].nqn, changes[k].states[j].grp_id, changes[k].states[j].state>> :
            j \in 1..Len(changes[k].states)} : k \in 1..Len(changes)}

\* The records the claim asks for: one for each subsystem and index of the new
\* state, unless the old state exists, has the subsystem, has the index, and
\* holds the same value there.
ExpectedRecords(old_map, incoming) ==
  LET old == get_gw_state(old_map, group_key, name)
      new == get_gw_state(incoming, group_key, name)
      changed == {p \in Nqns \X (0..MaxAna) :
                    /\ p[1] \in DOMAIN new.state.subsystems
                    /\ p[2] < Len(new.state.subsystems[p[1]])
                    /\ ~(/\ old.found
                         /\ p[1] \in DOMAIN old.state.subsystems
                         /\ p[2] < Len(old.state.subsystems[p[1]])
                         /\ old.state.subsystems[p[1]][p[2] + 1] =
                              new.state.subsystems[p[1]][p[2] + 1])}
  IN  {<<p[1], p[2] + 1,
         IF new.state.subsystems[p[1]][p[2] + 1] = GW_EXPORTED_OPTIMIZED_STATE
         THEN "OPTIMIZED" ELSE "INACCESSIBLE">> : p \in changed}

\* A step in which handle_nvmeof_gw_map builds its change-set.
Gathering ==
  /\ pc["dispatch"] \in {"idle", "set_group_id"}
  /\ pc'["dispatch"] \in {"set_ana_state", "handled"}
  /\ HasEntry(map) \/ HasEntry(new_map')

\* C4: the change-set handle_nvmeof_gw_map builds holds a record (nqn, i+1,
\* collapse(new value)) for subsystem nqn and index i of the new state if and
\* only if it is not the case that the old state exists, has nqn, and holds
\* the same value at index i.
C4_DiffCorrect ==
  [][Gathering => Records(ai') = ExpectedRecords(map, new_map')]_vars

\* The two maps both have this gateway's entry and are the same but for the
\* value at index i of subsystem n.
DiffersOnlyAt(old_map, incoming, n, i) ==
  /\ HasEntry(old_map)
  /\ HasEntry(incoming)
  /\ n \in DOMAIN OwnState(old_map).subsystems
  /\ n \in DOMAIN OwnState(incoming).subsystems
  /\ i < Len(OwnState(old_map).subsystems[n])
  /\ i < Len(OwnState(incoming).subsystems[n])
  /\ OwnState(old_map).subsystems[n][i + 1] # OwnState(incoming).subsystems[n][i + 1]
  /\ incoming = [old_map EXCEPT ![group_key][name].subsystems[n][i + 1] =
                                  OwnState(incoming).subsystems[n][i + 1]]

\* C7: a call of handle_nvmeof_gw_map with the map that is already the
\* last-applied map gathers no change, makes no remote call, and returns with
\* the last-applied map equal to that map.
C7_Idempotent ==
  [][(Entering /\ new_map' = map) =>
       /\ pc'["dispatch"] = "handled"
       /\ ai' = << >>
       /\ calls' = << >>
       /\ map' = new_map']_vars

\* C7, reached: the handler returned without a change or a call on a map whose
\* entry has two ana states, and that map is the last-applied map.
C7_SecondDelivery ==
  /\ pc["dispatch"] = "handled"
  /\ HasEntry(new_map)
  /\ map = new_map
  /\ ai = << >>
  /\ calls = << >>
  /\ "nqn1" \in DOMAIN OwnState(map).subsystems
  /\ Len(OwnState(map).subsystems["nqn1"]) = 2

\* C8: when the last-applied map and the incoming map both have this gateway's
\* entry and differ only in the value at index i of subsystem nqn, the
\* change-set passed to set_ana_state is one batch, for nqn, of one record,
\* with group id i+1.
C8_DiffMinimal ==
  [][\A n \in Nqns, i \in 0..MaxAna :
       (Entering /\ DiffersOnlyAt(map, new_map', n, i)) =>
         /\ pc'["dispatch"] = "set_ana_state"
         /\ Len(ai') = 1
         /\ ai'[1].nqn = n
         /\ Len(ai'[1].states) = 1
         /\ ai'[1].states[1].grp_id = i + 1]_vars

\* C8, reached: set_ana_state is about to be called for a change of the second
\* index of nqn1 alone.
C8_OneValueChanged ==
  /\ pc["dispatch"] = "set_ana_state"
  /\ calls = << >>
  /\ DiffersOnlyAt(map, new_map, "nqn1", 1)

\* C9: the exported state of every record of the change-set is OPTIMIZED when
\* the raw state of the new map at that subsystem and group is
\* GW_EXPORTED_OPTIMIZED_STATE, and INACCESSIBLE for every other raw state.
C9_Collapse ==
  \A k \in 1..Len(ai) :
    \A j \in 1..Len(ai[k].states) :
      LET r == ai[k].states[j]
          raw == OwnState(new_map).subsystems[ai[k].nqn][r.grp_id]
      IN  /\ r.state \in {"OPTIMIZED", "INACCESSIBLE"}
          /\ r.state = "OPTIMIZED" <=> raw = GW_EXPORTED_OPTIMIZED_STATE

\* C9, reached: a change-set with an OPTIMIZED record and an INACCESSIBLE
\* record, the latter from the raw state 2.
C9_BothExported ==
  /\ Len(ai) = 1
  /\ Len(ai[1].states) = 2
  /\ ai[1].states[1].state = "OPTIMIZED"
  /\ ai[1].states[2].state = "INACCESSIBLE"
  /\ OwnState(new_map).subsystems[ai[1].nqn][2] = 2

\* C10: in a cycle with a change-set, the last-applied map changes only in the
\* step where an attempt of set_ana_state returns success, and then becomes
\* the new map; while attempts fail the map stays what it was.
C10_CommitAfterAck ==
  [][/\ pc'["dispatch"] = "set_ana_state" => map' = map
     /\ (ai' # << >> /\ map' # map) =>
          /\ Attempt("set_ana_state")
          /\ calls'[Len(calls')].ok
          /\ map' = new_map]_vars

\* C10, reached: set_ana_state has failed and the last-applied map, which has
\* this gateway's entry, is still not the new map.
C10_FailedNotCommitted ==
  /\ pc["dispatch"] = "set_ana_state"
  /\ Failed("set_ana_state") = 1
  /\ HasEntry(map)
  /\ map # new_map

\* A thread is inside tick.
InTick(t) == pc[t] \in {"send_beacon", "got_subsystems", "beacon_sent", "scheduled"}
\* The dispatch thread is inside ms_dispatch2.
InDispatch == pc["dispatch"] \in {"set_group_id", "set_ana_state", "handled", "other"}

\* C5: the beacon send_beacon sends carries CREATED when the last-applied map
\* has no entry for this gateway, whatever get_subsystems returned; AVAILABLE
\* when it has one and the get_subsystems of this tick succeeded; UNAVAILABLE
\* when it has one and that call failed.
C5_Availability ==
  [][\A t \in TickThreads :
       Len(sent'[t]) > Len(sent[t]) =>
         sent'[t][Len(sent'[t])].availability =
           IF ~HasEntry(map) THEN "CREATED"
           ELSE IF ok[t] THEN "AVAILABLE" ELSE "UNAVAILABLE"]_vars

\* C5, reached: a tick of the timer sent a beacon with UNAVAILABLE.
C5_Unavailable ==
  /\ pc["timer"] = "beacon_sent"
  /\ Len(sent["timer"]) = 1
  /\ sent["timer"][1].availability = "UNAVAILABLE"

\* C6: at most one of the map reconciliation, the tick of init and the tick of
\* the timer is executing, and a thread inside tick holds the lock.
C6_MutualExclusion ==
  /\ Cardinality({t \in TickThreads : InTick(t)} \cup
                 {t \in {"dispatch"} : InDispatch}) <= 1
  /\ \A t \in TickThreads : InTick(t) => lock = t
  /\ InDispatch => lock = "dispatch"

\* C6, reached: the timer is inside send_beacon while the shutdown task waits
\* for the lock.
C6_TickWhileOthersWait ==
  /\ pc["timer"] = "got_subsystems"
  /\ pc["finisher"] = "queued"
  /\ lock = "timer"

\* The dispatch thread is in one of the retry loops of handle_nvmeof_gw_map:
\* before an attempt, every attempt of the loop so far having failed.
InRetry == pc["dispatch"] \in {"set_group_id", "set_ana_state"}

\* C11: while a set_group_id or set_ana_state retry loop is in progress, no
\* thread is inside tick, and no step sends a beacon, queries the gateway's
\* subsystems, starts or advances a tick, takes a scheduled tick from the timer
\* or starts the reconciliation of another map; so as long as the call does not
\* succeed, no beacon is sent.
C11_StallUnderRetry ==
  /\ [](InRetry => /\ lock = "dispatch"
                   /\ \A t \in TickThreads : ~InTick(t))
  /\ [][InRetry =>
          /\ sent' = sent
          /\ queries' = queries
          /\ \A t \in TickThreads : pc'[t] = pc[t]
          /\ events' = events
          /\ new_map' = new_map]_vars

\* C11, reached: set_ana_state has failed and the loop goes on while the tick
\* that init scheduled is pending in the timer.
C11_TickPendingInRetry ==
  /\ pc["dispatch"] = "set_ana_state"
  /\ Failed("set_ana_state") = 1
  /\ events = 1
  /\ pc["timer"] = "idle"
  /\ ~stopped

\* The remote calls eventually return success: an attempt that succeeds is
\* possible as long as a loop is in progress (lines 302 and 343 try again
\* after every failure), and it is eventually the one that happens.
SpecRetry ==
  /\ SpecReconcile
  /\ WF_vars(set_group_id(TRUE))
  /\ WF_vars(set_ana_state(TRUE))

\* The last attempt of every remote call made so far succeeded.
LastAttemptsOk(cs) ==
  \A k \in 1..Len(cs) :
    ~cs[k].ok => \E j \in (k + 1)..Len(cs) : cs[j].op = cs[k].op /\ cs[j].ok

\* C12: a failed attempt of set_group_id or set_ana_state, however many came
\* before it, leaves the handler in the same loop with the last-applied map
\* untouched; handle_nvmeof_gw_map never returns after a failed attempt that
\* no successful one followed; and when the remote calls eventually succeed,
\* every call of handle_nvmeof_gw_map on a map with this gateway's entry
\* returns with the last-applied map equal to that map.
C12_RetryUntilSuccess ==
  /\ [][\A op \in {"set_group_id", "set_ana_state"} :
          (Attempt(op) /\ ~calls'[Len(calls')].ok) =>
            /\ pc'["dispatch"] = pc["dispatch"]
            /\ InRetry'
            /\ map' = map]_vars
  /\ [](pc["dispatch"] = "handled" => LastAttemptsOk(calls))
  /\ (InRetry /\ HasEntry(new_map)) ~> (pc["dispatch"] = "handled" /\ map = new_map)

\* C12, reached: a first join returned after set_group_id and set_ana_state had
\* each failed and then succeeded, and the incoming map is the last-applied one.
C12_ReturnedAfterRetries ==
  /\ pc["dispatch"] = "handled"
  /\ map = new_map
  /\ HasEntry(map)
  /\ Len(calls) = 4
  /\ calls[1].op = "set_group_id" /\ ~calls[1].ok
  /\ calls[2].op = "set_group_id" /\ calls[2].ok
  /\ calls[3].op = "set_ana_state" /\ ~calls[3].ok
  /\ calls[4].op = "set_ana_state" /\ calls[4].ok

\* C13: a tick makes one get_subsystems call, then sends one beacon, then
\* schedules its successor and returns: it has made no call and sent nothing
\* before the call, made one call and sent nothing before the beacon, made one
\* call and sent one beacon from then on, whatever the call returned; when the
\* call failed the beacon's subsystem list is empty; and a tick returns only
\* after its one call and its one beacon.
C13_DegradedBeacon ==
  /\ [](\A t \in TickThreads :
          /\ pc[t] = "send_beacon" => queries[t] = 0 /\ Len(sent[t]) = 0
          /\ pc[t] = "got_subsystems" => queries[t] = 1 /\ Len(sent[t]) = 0
          /\ pc[t] \in {"beacon_sent", "scheduled"} =>
               /\ queries[t] = 1
               /\ Len(sent[t]) = 1
               /\ ~ok[t] => sent[t][1].subs = << >>)
  /\ [][\A t \in TickThreads :
          /\ queries'[t] > queries[t] => pc'[t] = "got_subsystems"
          /\ (InTick(t) /\ ~InTick(t)') =>
               queries[t] = 1 /\ Len(sent[t]) = 1]_vars

\* C13, reached: a tick of the timer whose get_subsystems failed has sent its
\* one beacon, with no subsystems and UNAVAILABLE, and scheduled the next tick.
C13_DegradedBeaconSent ==
  /\ pc["timer"] = "scheduled"
  /\ ~ok["timer"]
  /\ queries["timer"] = 1
  /\ Len(sent["timer"]) = 1
  /\ sent["timer"][1].subs = << >>
  /\ sent["timer"][1].availability = "UNAVAILABLE"

\* C14, as claimed: once a map with this gateway's entry has been committed, no
\* beacon carries CREATED, whatever maps came in since.
C14_CreatedOnlyInitial ==
  joined => \A t \in TickThreads : \A k \in 1..Len(sent[t]) :
              sent[t][k].availability # "CREATED"

\* C14, amended: once a map with this gateway's entry has been committed, a
\* beacon carries CREATED if and only if the last-applied map has lost the
\* entry; and the last-applied map loses the entry only when
\* handle_nvmeof_gw_map commits an incoming map that does not have it.
C14_CreatedWithoutEntry ==
  /\ [](joined => \A t \in TickThreads : \A k \in 1..Len(sent[t]) :
                    sent[t][k].availability = "CREATED" <=> ~HasEntry(map))
  /\ [][(HasEntry(map) /\ ~HasEntry(map')) =>
          /\ Returning
          /\ ~HasEntry(new_map')
          /\ map' = new_map']_vars

\* C14, reached: after a map with the entry was committed and the entry is
\* still in the last-applied map, a tick of the timer whose query failed sent
\* its beacon, with UNAVAILABLE.
C14_BeaconAfterJoin ==
  /\ joined
  /\ HasEntry(map)
  /\ pc["timer"] = "beacon_sent"
  /\ ~ok["timer"]
  /\ sent["timer"][1].availability # "CREATED"

\* The entry of a map keyed by this gateway's (pool, group, name), if any.
OwnEntries(m) ==
  IF group_key \in DOMAIN m /\ name \in DOMAIN m[group_key]
  THEN {m[group_key][name]}
  ELSE {}

\* The remote calls of one run of handle_nvmeof_gw_map with their arguments,
\* each call counted once however often it was tried.
RemoteCalls(old_map, incoming, equal_reads) ==
  LET old == get_gw_state(old_map, group_key, name)
      new == get_gw_state(incoming, group_key, name)
      changes == GatherStateChanges(old.found, old.state, new.state, equal_reads)
  IN  IF ReturnsEarly(old.found, new.found) THEN << >>
      ELSE (IF FirstJoin(old.found, new.found)
            THEN <<Call("set_group_id", new.state.group_id, << >>, TRUE)>>
            ELSE << >>) \o
           (IF HasChanges(changes)
            THEN <<Call("set_ana_state", 0, changes, TRUE)>>
            ELSE << >>)

\* The calls of a run that succeeded, in order.
IsOk(c) == c.ok
Succeeded(cs) == SelectSeq(cs, IsOk)

\* C15: when handle_nvmeof_gw_map returns, the remote calls it made and their
\* arguments are the ones any run on the same last-applied map makes for any
\* incoming map that has the same entry for this gateway, whatever the entries
\* of other gateways and other groups in the two maps.
C15_OwnEntryDrivesCalls ==
  [][Returning =>
       \A m2 \in Maps :
         OwnEntries(m2) = OwnEntries(new_map') =>
           \A equal_reads \in
                SUBSET UncheckedReads(HasEntry(map), OwnState(map), OwnState(m2)) :
             Succeeded(calls') = RemoteCalls(map, m2, equal_reads)]_vars

\* The ticks that are executing and have not yet scheduled their successor.
TicksRunning ==
  Cardinality({t \in TickThreads : pc[t] \in {"send_beacon", "got_subsystems", "beacon_sent"}})

\* C16: from the first tick of init until timer.shutdown(), exactly one tick
\* is executing or pending in the timer, a tick that has scheduled its
\* successor and is about to return counting as over: no tick is pending while
\* one runs up to its add_event_after, one is pending from then on until the
\* timer takes it; never none and never two. After timer.shutdown() none is
\* pending and none executes.
C16_OneTick ==
  /\ (InTick("init") \/ pc["init"] = "done") /\ ~stopped =>
       events + TicksRunning = 1
  /\ \A t \in TickThreads : pc[t] = "scheduled" => events = 1
  /\ stopped => events = 0 /\ ~InTick("timer")

\* C16, reached: the timer has taken the tick that init scheduled, and that
\* tick has sent its beacon and scheduled its own successor.
C16_SuccessorScheduled ==
  /\ pc["init"] = "done"
  /\ pc["timer"] = "scheduled"
  /\ Len(sent["timer"]) = 1
  /\ events = 1
  /\ ~stopped

\* C17: the teardown that shutdown queued runs with the lock held and never
\* while ms_dispatch2 is inside handle_nvmeof_gw_map or one of its retry loops:
\* while the dispatch thread is in the handler the teardown has not started,
\* the timer is not shut down and the shutdown task, if queued, is still
\* waiting; so for as long as a retry loop keeps failing, the teardown does not
\* start and does not finish.
C17_NoTeardownInRetry ==
  /\ pc["finisher"] = "teardown" => lock = "finisher" /\ ~InDispatch
  /\ InDispatch => pc["finisher"] \in {"idle", "queued"} /\ ~stopped
  /\ stopped => pc["finisher"] = "done" /\ ~InDispatch

\* C17, reached: shutdown has queued the teardown while set_ana_state has
\* failed and its retry loop goes on.
C17_ShutdownWaitsForRetry ==
  /\ pc["finisher"] = "queued"
  /\ pc["dispatch"] = "set_ana_state"
  /\ Failed("set_ana_state") = 1
  /\ lock = "dispatch"

\* C18: every attempt of set_ana_state carries a change-set with at least one
\* subsystem, and every subsystem of it has at least one record; when the
\* change-set gathered is empty, handle_nvmeof_gw_map returns without any
\* set_ana_state attempt, with the incoming map as the last-applied map.
C18_NoEmptyCall ==
  [][/\ Attempt("set_ana_state") =>
          LET c == calls'[Len(calls')]
          IN  /\ Len(c.ai) > 0
              /\ \A k \in 1..Len(c.ai) : Len(c.ai[k].states) > 0
     /\ (Gathering /\ ai' = << >>) =>
          /\ pc'["dispatch"] = "handled"
          /\ \A k \in 1..Len(calls') : calls'[k].op # "set_ana_state"
          /\ map' = new_map']_vars

\* C18, reached: a first join whose incoming entry has a subsystem with no
\* group state returned after set_group_id alone, and the incoming map is the
\* last-applied map.
C18_CommittedWithoutCall ==
  /\ pc["dispatch"] = "handled"
  /\ "nqn1" \in DOMAIN OwnState(new_map).subsystems
  /\ ai = << >>
  /\ Len(calls) = 1
  /\ calls[1].op = "set_group_id"
  /\ map = new_map

\* C19: for a subsystem that the old and the new state of this gateway both
\* have, every index of the new sequence that the old sequence does not have
\* gets a change record, for group id index + 1, in the change-set that
\* handle_nvmeof_gw_map gathers.
C19_AbsentIndexChanged ==
  [][Gathering =>
       \A p \in UncheckedReads(HasEntry(map), OwnState(map), OwnState(new_map')) :
         \E r \in Records(ai') : r[1] = p[1] /\ r[2] = p[2] + 1]_vars

\* The successful set_group_id calls among the calls.
GroupIdSet(cs) ==
  Cardinality({k \in 1..Len(cs) : cs[k].op = "set_group_id" /\ cs[k].ok})

\* C20: a call of handle_nvmeof_gw_map enters the set_group_id loop if and only
\* if the last-applied map has no entry for this gateway and the incoming map
\* has one; every attempt is made in such a cycle, carries the group_id of the
\* incoming entry and comes after failed set_group_id attempts only; the loop
\* is left only by an attempt that succeeded; and a cycle that returns has made
\* one successful set_group_id when it was such a cycle and no set_group_id
\* attempt at all otherwise.
C20_GroupIdOnFirstJoin ==
  [][/\ Entering =>
          (pc'["dispatch"] = "set_group_id" <=> ~HasEntry(map) /\ HasEntry(new_map'))
     /\ Attempt("set_group_id") =>
          /\ ~HasEntry(map)
          /\ HasEntry(new_map)
          /\ calls'[Len(calls')].group_id = OwnState(new_map).group_id
          /\ \A k \in 1..Len(calls) : calls[k].op = "set_group_id" /\ ~calls[k].ok
     /\ (pc["dispatch"] = "set_group_id" /\ pc'["dispatch"] # "set_group_id") =>
          Attempt("set_group_id") /\ calls'[Len(calls')].ok
     /\ Returning =>
          IF ~HasEntry(map) /\ HasEntry(new_map')
          THEN GroupIdSet(calls') = 1
          ELSE \A k \in 1..Len(calls') : calls'[k].op # "set_group_id"]_vars

\* C20, reached: on a first join set_group_id failed, was tried again with the
\* same group_id and succeeded, and the handler went on to set_ana_state.
C20_GroupIdSetOnSecondAttempt ==
  /\ pc["dispatch"] = "set_ana_state"
  /\ ~HasEntry(map)
  /\ OwnState(new_map).group_id = 2
  /\ Len(calls) = 2
  /\ calls[1] = Call("set_group_id", 2, << >>, FALSE)
  /\ calls[2] = Call("set_group_id", 2, << >>, TRUE)

====
